---- MODULE Spec2Model ----
(***************************************************************************)
(* Model of src/cli/clipboard_save_to_github.py: one invocation of         *)
(* ClipboardImageSaver() followed by run().  The program is sequential;    *)
(* pc is the position of the single control flow.  The outcomes of the     *)
(* external collaborators (Pillow encoder, filesystem, git subprocesses,   *)
(* clipboard) are nondeterministic choices made where the code calls them. *)
(***************************************************************************)
EXTENDS Integers, Sequences, FiniteSets, TLC

(* ---------------------------------------------------------------------- *)
(* Program constants                                                       *)
(* ---------------------------------------------------------------------- *)
DefaultMaxSizeKB == 500
ResizeThreshold == 1920
SaveQuality == 75
ScaleSweepQuality == 75
NoQuality == 0

Qualities == <<95, 85, 75, 65, 55, 45, 35>>
\* the scale factors 0.9, 0.8, 0.7, 0.6, 0.5 as tenths
ScaleTenths == <<9, 8, 7, 6, 5>>

(* ---------------------------------------------------------------------- *)
(* Bounds of the model                                                     *)
(* ---------------------------------------------------------------------- *)
\* number of entries of DimSamples that the clipboard image is drawn from
NumSamples == 7

\* width x height of the clipboard images considered
DimSamples ==
    << <<200, 200>>,      \* small image
       <<4000, 3000>>,    \* landscape, above the threshold
       <<2148, 537>>,     \* above the threshold, 1920/2148 rounds down
       <<1000, 2500>>,    \* portrait, above the threshold
       <<1920, 1080>>,    \* exactly at the threshold
       <<90, 170>>,       \* small, 90 * 0.7 is inexact in binary
       <<10, 30000>>,     \* narrow strip: resizing gives width 0
       <<3000, 3000>>,
       <<2500, 1250>>,
       <<1921, 1921>> >>

\* encoded sizes in bytes that the encoder may report: 20 KB, exactly the
\* 500 KB of the budget, and one byte more
SizeBytes == {20480, 512000, 512001}

NoImage == [id |-> -1, w |-> 0, h |-> 0]
NoFile == [image |-> NoImage, format |-> "none", quality |-> NoQuality, bytes |-> 0]
NoEstimate == [image |-> NoImage, format |-> "none", quality |-> NoQuality, bytes |-> 0]

ClipboardImages ==
    {[id |-> 0, w |-> DimSamples[i][1], h |-> DimSamples[i][2]] : i \in 1..NumSamples}

(* ---------------------------------------------------------------------- *)
(* int(x * (num / den)) in IEEE-754 double arithmetic, for 0 < num < den.  *)
(* num/den lies in [2^-j, 2^(1-j)); its double is m / 2^(52+j) with        *)
(* m = round(num * 2^(52+j) / den), so num * 2^(52+j) = den * m + d with d *)
(* the centred remainder.  x * m / 2^(52+j) is rounded once more; it falls *)
(* below the exact quotient q only if q is an integer, d > 0 and the error *)
(* x * d / (den * 2^(52+j)) exceeds half a unit in the last place below q. *)
(* ---------------------------------------------------------------------- *)
RECURSIVE Pow2(_)
Pow2(n) == IF n = 0 THEN 1 ELSE 2 * Pow2(n - 1)

RECURSIVE PowMod2(_, _)
PowMod2(k, den) == IF k = 0 THEN 1 % den ELSE (2 * PowMod2(k - 1, den)) % den

RECURSIVE BinaryExponent(_, _, _)
BinaryExponent(num, den, j) ==
    IF den <= num * Pow2(j) THEN j ELSE BinaryExponent(num, den, j + 1)

RECURSIVE FloorLog2(_)
FloorLog2(q) == IF q < 2 THEN 0 ELSE 1 + FloorLog2(q \div 2)

FloatMulTrunc(x, num, den) ==
    LET j == BinaryExponent(num, den, 1)
        rem == ((num % den) * PowMod2(52 + j, den)) % den
        d == IF 2 * rem < den THEN rem ELSE rem - den
        exact == x * num
        q == exact \div den
    IN  IF exact % den # 0 \/ d <= 0 \/ q = 0
        THEN q
        ELSE LET t == FloorLog2(q)
                 tp == IF Pow2(t) = q THEN t - 1 ELSE t
             IN  IF 2 * x * d > den * Pow2(j + tp) THEN q - 1 ELSE q

Max(a, b) == IF a >= b THEN a ELSE b

Range(s) == {s[i] : i \in 1..Len(s)}

VARIABLES
    pc,                \* position of the control flow
    uncaught,          \* operation whose exception left the program, or "none"
    max_size_kb,       \* self.max_size_kb
    clipboard,         \* content of the system clipboard
    image,             \* run: image
    compressed_image,  \* compress_image: compressed_image
    quality_index,     \* compress_image: position in the quality loop
    scale_index,       \* compress_image: position in the scale loop
    estimates,         \* the get_image_size_kb calls that returned, in order
    resizes,           \* the Image.resize calls made, in order
    accepted,          \* estimate that made compress_image return, if any
    result_image,      \* run: compressed_image
    format_type,       \* run: format_type
    file,              \* the file at base_path / filename
    git_log,           \* the git subprocesses invoked, in order
    git_success,       \* run: git_success
    github_url,        \* run: github_url
    run_result         \* value returned by run

vars == <<pc, uncaught, max_size_kb, clipboard, image, compressed_image,
          quality_index, scale_index, estimates, resizes, accepted,
          result_image, format_type, file, git_log,
          git_success, github_url, run_result>>

compress_vars == <<compressed_image, quality_index, scale_index, estimates,
                   resizes, accepted, result_image, format_type>>
git_vars == <<git_log, git_success, github_url>>

NoUrl == [username |-> "", repo |-> "", branch |-> "", path |-> ""]

Init ==
    /\ pc = "init"
    /\ uncaught = "none"
    /\ max_size_kb = DefaultMaxSizeKB
    /\ clipboard \in {[image |-> i, url |-> NoUrl] : i \in ClipboardImages \cup {NoImage}}
    /\ image = NoImage
    /\ compressed_image = NoImage
    /\ quality_index = 0
    /\ scale_index = 0
    /\ estimates = <<>>
    /\ resizes = <<>>
    /\ accepted = NoEstimate
    /\ result_image = NoImage
    /\ format_type = "none"
    /\ file = NoFile
    /\ git_log = <<>>
    /\ git_success = "unset"
    /\ github_url = NoUrl
    /\ run_result = "running"

\* an exception leaves the program at the given operation
Raise(op) ==
    /\ pc' = "uncaught"
    /\ uncaught' = op

(* ---------------------------------------------------------------------- *)
(* __init__ / ensure_directory_exists                                      *)
(* ---------------------------------------------------------------------- *)
ensure_directory_exists ==
    /\ pc = "init"
    /\ \/ /\ pc' = "get_clipboard_image"
          /\ UNCHANGED uncaught
       \/ Raise("mkdir")
    /\ UNCHANGED <<max_size_kb, clipboard, image, file, run_result>>
    /\ UNCHANGED compress_vars
    /\ UNCHANGED git_vars

(* ---------------------------------------------------------------------- *)
(* run, step 1: get_clipboard_image                                        *)
(* ---------------------------------------------------------------------- *)
get_clipboard_image ==
    /\ pc = "get_clipboard_image"
    /\ \E grabbed \in {clipboard.image, NoImage} :
          \* NoImage: the clipboard holds no image, or grabclipboard raised
          IF grabbed = NoImage
          THEN /\ pc' = "done"
               /\ run_result' = "False"
               /\ UNCHANGED image
          ELSE /\ pc' = "baseline"
               /\ image' = grabbed
               /\ UNCHANGED run_result
    /\ UNCHANGED <<uncaught, max_size_kb, clipboard, file>>
    /\ UNCHANGED compress_vars
    /\ UNCHANGED git_vars

(* ---------------------------------------------------------------------- *)
(* get_image_size_kb                                                       *)
(* ---------------------------------------------------------------------- *)
\* variant: the comparison with the budget is strict
FitsStrict(bytes) == bytes < max_size_kb * 1024

\* size_kb <= self.max_size_kb, with size_kb = size_bytes / 1024
Fits(bytes) == bytes <= max_size_kb * 1024

\* The encoder is a function of the pixels and the parameters: an encoding
\* measured before has the same size again, a JPEG of the same image does
\* not grow when the quality is lowered, and no encoding takes more than 8
\* bytes per pixel plus 4 KB of headers.
get_image_size_kb(img, format, quality) ==
    LET known == {e \in Range(estimates) :
                     /\ e.image.w = img.w /\ e.image.h = img.h
                     /\ (e.image.id = img.id \/ {e.image.id, img.id} = {0, 1})
                     /\ e.format = format}
    IN  IF \E e \in known : e.quality = quality
        THEN {e.bytes : e \in {k \in known : k.quality = quality}}
        ELSE {b \in SizeBytes :
                 /\ b <= 8 * img.w * img.h + 4096
                 /\ \A e \in known : /\ e.quality > quality => b <= e.bytes
                                     /\ e.quality < quality => b >= e.bytes}

Estimate(img, format, quality, b) ==
    [image |-> img, format |-> format, quality |-> quality, bytes |-> b]

\* Image.resize: a new image of the given size; a side of 0 is an error
Resized(id, w, h) == [id |-> id, w |-> w, h |-> h]

(* ---------------------------------------------------------------------- *)
(* compress_image                                                          *)
(* ---------------------------------------------------------------------- *)
BaselineCheck ==
    /\ pc = "baseline"
    /\ \/ /\ Raise("get_image_size_kb")
          /\ UNCHANGED compress_vars
       \/ \E b \in get_image_size_kb(image, "PNG", NoQuality) :
             LET e == Estimate(image, "PNG", NoQuality, b)
             IN  /\ estimates' = Append(estimates, e)
                 /\ IF Fits(b)
                    THEN /\ result_image' = image
                         /\ format_type' = "PNG"
                         /\ accepted' = e
                         /\ pc' = "save_image"
                    ELSE /\ pc' = "predownscale"
                         /\ UNCHANGED <<result_image, format_type, accepted>>
                 /\ UNCHANGED <<uncaught, compressed_image, quality_index,
                                scale_index, resizes>>
    /\ UNCHANGED <<max_size_kb, clipboard, image, file, run_result>>
    /\ UNCHANGED git_vars

PreDownscale ==
    /\ pc = "predownscale"
    /\ LET copy == [id |-> 1, w |-> image.w, h |-> image.h]
           longer == Max(copy.w, copy.h)
           new_width == FloatMulTrunc(copy.w, ResizeThreshold, longer)
           new_height == FloatMulTrunc(copy.h, ResizeThreshold, longer)
       IN  IF copy.w > ResizeThreshold \/ copy.h > ResizeThreshold
           THEN IF new_width < 1 \/ new_height < 1
                THEN /\ Raise("resize")
                     /\ UNCHANGED <<compressed_image, quality_index, resizes>>
                ELSE /\ compressed_image' = Resized(2, new_width, new_height)
                     /\ resizes' = Append(resizes, [from |-> copy,
                                                   to |-> Resized(2, new_width, new_height)])
                     /\ quality_index' = 1
                     /\ pc' = "quality"
                     /\ UNCHANGED uncaught
           ELSE /\ compressed_image' = copy
                /\ quality_index' = 1
                /\ pc' = "quality"
                /\ UNCHANGED <<uncaught, resizes>>
    /\ UNCHANGED <<scale_index, estimates, accepted, result_image, format_type>>
    /\ UNCHANGED <<max_size_kb, clipboard, image, file, run_result>>
    /\ UNCHANGED git_vars

\* variant: the loop advances two levels at a time
SkipQualityIndex(i) == i + 2

\* for quality in [95, 85, 75, 65, 55, 45, 35]: the next iteration
NextQualityIndex(i) == i + 1

QualityStep ==
    /\ pc = "quality"
    /\ \/ /\ Raise("get_image_size_kb")
          /\ UNCHANGED compress_vars
       \/ \E b \in get_image_size_kb(compressed_image, "JPEG", Qualities[quality_index]) :
             LET e == Estimate(compressed_image, "JPEG", Qualities[quality_index], b)
             IN  /\ estimates' = Append(estimates, e)
                 /\ IF Fits(b)
                    THEN /\ result_image' = compressed_image
                         /\ format_type' = "JPEG"
                         /\ accepted' = e
                         /\ pc' = "save_image"
                         /\ UNCHANGED <<quality_index, scale_index>>
                    ELSE /\ IF quality_index < Len(Qualities)
                            THEN /\ quality_index' = NextQualityIndex(quality_index)
                                 /\ pc' = "quality"
                                 /\ UNCHANGED scale_index
                            ELSE /\ scale_index' = 1
                                 /\ pc' = "scale"
                                 /\ UNCHANGED quality_index
                         /\ UNCHANGED <<result_image, format_type, accepted>>
                 /\ UNCHANGED <<uncaught, compressed_image, resizes>>
    /\ UNCHANGED <<max_size_kb, clipboard, image, file, run_result>>
    /\ UNCHANGED git_vars

ScaleStep ==
    /\ pc = "scale"
    /\ LET new_width == FloatMulTrunc(compressed_image.w, ScaleTenths[scale_index], 10)
           new_height == FloatMulTrunc(compressed_image.h, ScaleTenths[scale_index], 10)
           temp_image == Resized(2 + scale_index, new_width, new_height)
       IN  IF new_width < 1 \/ new_height < 1
           THEN /\ Raise("resize")
                /\ UNCHANGED compress_vars
           ELSE \/ /\ Raise("get_image_size_kb")
                   /\ resizes' = Append(resizes, [from |-> compressed_image, to |-> temp_image])
                   /\ UNCHANGED <<compressed_image, quality_index, scale_index,
                                  estimates, accepted, result_image, format_type>>
                \/ \E b \in get_image_size_kb(temp_image, "JPEG", ScaleSweepQuality) :
                      LET e == Estimate(temp_image, "JPEG", ScaleSweepQuality, b)
                      IN  /\ resizes' = Append(resizes, [from |-> compressed_image,
                                                        to |-> temp_image])
                          /\ estimates' = Append(estimates, e)
                          /\ IF Fits(b)
                             THEN /\ result_image' = temp_image
                                  /\ format_type' = "JPEG"
                                  /\ accepted' = e
                                  /\ pc' = "save_image"
                                  /\ UNCHANGED scale_index
                             ELSE /\ IF scale_index < Len(ScaleTenths)
                                     THEN /\ scale_index' = scale_index + 1
                                          /\ pc' = "scale"
                                     ELSE /\ pc' = "fallback"
                                          /\ UNCHANGED scale_index
                                  /\ UNCHANGED <<result_image, format_type, accepted>>
                          /\ UNCHANGED <<uncaught, compressed_image, quality_index>>
    /\ UNCHANGED <<max_size_kb, clipboard, image, file, run_result>>
    /\ UNCHANGED git_vars

ExhaustionFallback ==
    /\ pc = "fallback"
    /\ result_image' = compressed_image
    /\ format_type' = "JPEG"
    /\ pc' = "save_image"
    /\ UNCHANGED <<compressed_image, quality_index, scale_index, estimates,
                   resizes, accepted>>
    /\ UNCHANGED <<uncaught, max_size_kb, clipboard, image, file, run_result>>
    /\ UNCHANGED git_vars

(* ---------------------------------------------------------------------- *)
(* run, steps 3 and 4: generate_filename, save_image                       *)
(* ---------------------------------------------------------------------- *)
generate_filename(extension) == "clipboard_image_TIMESTAMP." \o extension

save_image ==
    /\ pc = "save_image"
    /\ \/ \* image.save or stat raised: caught, save_image returns None
          /\ run_result' = "False"
          /\ pc' = "done"
          /\ UNCHANGED file
       \/ LET quality == IF format_type = "JPEG" THEN SaveQuality ELSE NoQuality
          IN  \E b \in get_image_size_kb(result_image, format_type, quality) :
                 /\ file' = [image |-> result_image, format |-> format_type,
                             quality |-> quality, bytes |-> b]
                 /\ pc' = "check_git_repo"
                 /\ UNCHANGED run_result
    /\ UNCHANGED <<uncaught, max_size_kb, clipboard, image>>
    /\ UNCHANGED compress_vars
    /\ UNCHANGED git_vars

(* ---------------------------------------------------------------------- *)
(* run, step 5: git_operations                                             *)
(* ---------------------------------------------------------------------- *)
ChdirOutcomes == {"ok", "FileNotFoundError", "PermissionError"}
SubprocessOutcomes == {"ok", "CalledProcessError", "FileNotFoundError"}

\* git_operations returns False
\* one subprocess.run call: the command, how it ended, what it printed
Invocation(cmd, result, stdout) == [cmd |-> cmd, result |-> result, stdout |-> stdout]

GitFailed ==
    /\ git_success' = "False"
    /\ pc' = "after_git"
    /\ UNCHANGED uncaught

check_git_repo ==
    /\ pc = "check_git_repo"
    /\ \E chdir \in ChdirOutcomes, proc \in SubprocessOutcomes :
          IF chdir = "PermissionError"
          THEN /\ Raise("chdir")
               /\ UNCHANGED <<git_log, git_success>>
          ELSE IF chdir = "FileNotFoundError"
          THEN /\ GitFailed
               /\ UNCHANGED git_log
          ELSE /\ git_log' = Append(git_log, Invocation("rev-parse", proc, ""))
               /\ IF proc = "ok"
                  THEN /\ pc' = "git_add"
                       /\ UNCHANGED <<uncaught, git_success>>
                  ELSE GitFailed
    /\ UNCHANGED <<max_size_kb, clipboard, image, file, github_url, run_result>>
    /\ UNCHANGED compress_vars

git_add ==
    /\ pc = "git_add"
    /\ \E chdir \in ChdirOutcomes, proc \in SubprocessOutcomes :
          IF chdir # "ok"
          THEN /\ GitFailed
               /\ UNCHANGED git_log
          ELSE /\ git_log' = Append(git_log, Invocation("add", proc, ""))
               /\ IF proc = "ok"
                  THEN /\ pc' = "git_status"
                       /\ UNCHANGED <<uncaught, git_success>>
                  ELSE GitFailed
    /\ UNCHANGED <<max_size_kb, clipboard, image, file, github_url, run_result>>
    /\ UNCHANGED compress_vars

git_status ==
    /\ pc = "git_status"
    /\ \E proc \in SubprocessOutcomes, porcelain \in {"", "A  images/file"} :
          IF proc # "ok"
          THEN /\ git_log' = Append(git_log, Invocation("status", proc, ""))
               /\ GitFailed
          ELSE IF porcelain = ""
          THEN /\ git_log' = Append(git_log, Invocation("status", proc, porcelain))
               /\ git_success' = "True"
               /\ pc' = "after_git"
               /\ UNCHANGED uncaught
          ELSE /\ git_log' = Append(git_log, Invocation("status", proc, porcelain))
               /\ pc' = "git_commit"
               /\ UNCHANGED <<uncaught, git_success>>
    /\ UNCHANGED <<max_size_kb, clipboard, image, file, github_url, run_result>>
    /\ UNCHANGED compress_vars

\* variant: the exit status of git commit is not checked
git_commit_unchecked ==
    /\ pc = "git_commit"
    /\ \E proc \in SubprocessOutcomes :
          /\ git_log' = Append(git_log, Invocation("commit", proc, ""))
          /\ pc' = "git_push"
          /\ UNCHANGED <<uncaught, git_success>>
    /\ UNCHANGED <<max_size_kb, clipboard, image, file, github_url, run_result>>
    /\ UNCHANGED compress_vars

git_commit ==
    /\ pc = "git_commit"
    /\ \E proc \in SubprocessOutcomes :
          /\ git_log' = Append(git_log, Invocation("commit", proc, ""))
          /\ IF proc = "ok"
             THEN /\ pc' = "git_push"
                  /\ UNCHANGED <<uncaught, git_success>>
             ELSE GitFailed
    /\ UNCHANGED <<max_size_kb, clipboard, image, file, github_url, run_result>>
    /\ UNCHANGED compress_vars

\* variant: a failed push removes the file that was written
git_push_rollback ==
    /\ pc = "git_push"
    /\ \E proc \in SubprocessOutcomes :
          /\ git_log' = Append(git_log, Invocation("push", proc, ""))
          /\ IF proc = "ok"
             THEN /\ git_success' = "True"
                  /\ pc' = "after_git"
                  /\ UNCHANGED <<uncaught, file>>
             ELSE /\ GitFailed
                  /\ file' = NoFile
    /\ UNCHANGED <<max_size_kb, clipboard, image, github_url, run_result>>
    /\ UNCHANGED compress_vars

git_push ==
    /\ pc = "git_push"
    /\ \E proc \in SubprocessOutcomes :
          /\ git_log' = Append(git_log, Invocation("push", proc, ""))
          /\ IF proc = "ok"
             THEN /\ git_success' = "True"
                  /\ pc' = "after_git"
                  /\ UNCHANGED uncaught
             ELSE GitFailed
    /\ UNCHANGED <<max_size_kb, clipboard, image, file, github_url, run_result>>
    /\ UNCHANGED compress_vars

(* ---------------------------------------------------------------------- *)
(* run, step 6 and the return                                              *)
(* ---------------------------------------------------------------------- *)
\* variant: the URL is derived whatever git_operations returned
run_after_git_always ==
    /\ pc = "after_git"
    /\ pc' = "generate_github_raw_url"
    /\ UNCHANGED <<uncaught, max_size_kb, clipboard, image, file, run_result>>
    /\ UNCHANGED compress_vars
    /\ UNCHANGED git_vars

\* the if / else on git_success after git_operations
run_after_git ==
    /\ pc = "after_git"
    /\ IF git_success = "True"
       THEN /\ pc' = "generate_github_raw_url"
            /\ UNCHANGED run_result
       ELSE /\ pc' = "done"
            /\ run_result' = git_success
    /\ UNCHANGED <<uncaught, max_size_kb, clipboard, image, file>>
    /\ UNCHANGED compress_vars
    /\ UNCHANGED git_vars

generate_github_raw_url ==
    /\ pc = "generate_github_raw_url"
    /\ \E chdir \in ChdirOutcomes,
          remote \in {<<"owner", "repo">>, <<"", "">>},
          current \in {"main", "dev", "CalledProcessError"} :
          IF chdir = "PermissionError"
          THEN /\ Raise("chdir")
               /\ UNCHANGED github_url
          ELSE LET info == IF chdir = "ok" THEN remote ELSE <<"", "">>
                   username == IF info[1] = "" \/ info[2] = ""
                               THEN "your-username" ELSE info[1]
                   repo == IF info[1] = "" \/ info[2] = ""
                           THEN "public_images" ELSE info[2]
                   branch == IF chdir = "ok" /\ current # "CalledProcessError"
                             THEN current ELSE "main"
                   relative_path == "images/" \o
                       generate_filename(IF file.format = "JPEG" THEN "jpg" ELSE "png")
               IN  /\ github_url' = [username |-> username, repo |-> repo,
                                     branch |-> branch, path |-> relative_path]
                   /\ pc' = "copy_to_clipboard"
                   /\ UNCHANGED uncaught
    /\ UNCHANGED <<max_size_kb, clipboard, image, file, run_result>>
    /\ UNCHANGED <<git_log, git_success>>
    /\ UNCHANGED compress_vars

copy_to_clipboard ==
    /\ pc = "copy_to_clipboard"
    /\ \/ clipboard' = [image |-> NoImage, url |-> github_url]
       \/ \* pyperclip.copy raised: caught, copy_to_clipboard returns False
          UNCHANGED clipboard
    /\ run_result' = git_success
    /\ pc' = "done"
    /\ UNCHANGED <<uncaught, max_size_kb, image, file>>
    /\ UNCHANGED compress_vars
    /\ UNCHANGED git_vars

Next ==
    \/ ensure_directory_exists
    \/ get_clipboard_image
    \/ BaselineCheck
    \/ PreDownscale
    \/ QualityStep
    \/ ScaleStep
    \/ ExhaustionFallback
    \/ save_image
    \/ check_git_repo
    \/ git_add
    \/ git_status
    \/ git_commit
    \/ git_push
    \/ run_after_git
    \/ generate_github_raw_url
    \/ copy_to_clipboard

Spec == Init /\ [][Next]_vars

(* ---------------------------------------------------------------------- *)
(* Properties                                                              *)
(* ---------------------------------------------------------------------- *)
WithinBudget(bytes) == bytes <= max_size_kb * 1024

\* the estimates of the quality sweep: JPEG encodings of compressed_image
QualityEstimates ==
    SelectSeq(estimates, LAMBDA e : e.format = "JPEG" /\ e.image.id \in {1, 2})
\* the estimates of the scale sweep: encodings of the temporary images
ScaleEstimates == SelectSeq(estimates, LAMBDA e : e.image.id > 2)

\* compress_image has returned or raised
CompressEnded ==
    \/ format_type # "none"
    \/ uncaught \in {"get_image_size_kb", "resize"}

PushCompleted ==
    \E i \in 1..Len(git_log) : git_log[i].cmd = "push" /\ git_log[i].result = "ok"
StatusClean ==
    /\ git_log # <<>>
    /\ git_log[Len(git_log)] = Invocation("status", "ok", "")
GitStepFailed(log) ==
    \E i \in 1..Len(log) :
        log[i].cmd \in {"add", "status", "commit", "push"} /\ log[i].result # "ok"

\* C1: an image whose PNG estimate is within the budget is returned as the
\* original image object with format PNG; no copy, no resize and no JPEG
\* estimate is made.
C1_BaselineIdentity ==
    (estimates # <<>> /\ WithinBudget(estimates[1].bytes)) =>
        /\ estimates = <<Estimate(image, "PNG", NoQuality, estimates[1].bytes)>>
        /\ resizes = <<>>
        /\ compressed_image = NoImage
        /\ result_image = image
        /\ format_type = "PNG"
        /\ accepted = estimates[1]

C1_Witness ==
    /\ pc = "done"
    /\ estimates # <<>> /\ WithinBudget(estimates[1].bytes)
    /\ format_type = "PNG"
    /\ result_image = image

\* C2: when the PNG estimate exceeds the budget the quality levels are
\* estimated in the order 95, 85, 75, 65, 55, 45, 35, none skipped, and the
\* first level that fits ends the search: it is the last estimate made, no
\* scale factor is tried, and compress_image returns that candidate.
C2_QualitySweepOrder ==
    /\ Len(QualityEstimates) <= 7
    /\ \A i \in 1..Len(QualityEstimates) :
          /\ QualityEstimates[i].quality = <<95, 85, 75, 65, 55, 45, 35>>[i]
          /\ QualityEstimates[i].image = compressed_image
          /\ estimates[i + 1] = QualityEstimates[i]
          /\ ~WithinBudget(estimates[1].bytes)
          /\ WithinBudget(QualityEstimates[i].bytes) =>
                /\ i = Len(QualityEstimates)
                /\ Len(estimates) = i + 1
                /\ ScaleEstimates = <<>>
                /\ accepted = QualityEstimates[i]
                /\ result_image = compressed_image
                /\ format_type = "JPEG"
    /\ ScaleEstimates # <<>> =>
          /\ Len(QualityEstimates) = 7
          /\ \A i \in 1..7 : ~WithinBudget(QualityEstimates[i].bytes)

C2_Witness ==
    /\ pc = "save_image"
    /\ Len(QualityEstimates) = 4
    /\ accepted = QualityEstimates[4]
    /\ WithinBudget(accepted.bytes)

\* C3: when no quality level and no scale factor fits, compress_image
\* returns the image of the last scale step, the pre-downscaled image
\* resized by 0.5, as JPEG.
C3_FallbackIsSmallestCandidate ==
    (format_type = "JPEG" /\ Len(ScaleEstimates) = 5
        /\ \A i \in 1..5 : ~WithinBudget(ScaleEstimates[i].bytes)) =>
        /\ result_image.w = compressed_image.w \div 2
        /\ result_image.h = compressed_image.h \div 2
        /\ result_image = ScaleEstimates[5].image

\* C4: the file written by save_image has the format, quality and
\* dimensions of the candidate compress_image accepted, so that when the
\* accepted estimate is within the budget the file has that size and is
\* within the budget.
C4_FileIsAcceptedCandidate ==
    (file # NoFile /\ accepted # NoEstimate) =>
        /\ file.format = accepted.format
        /\ file.quality = accepted.quality
        /\ file.image.w = accepted.image.w
        /\ file.image.h = accepted.image.h
        /\ WithinBudget(accepted.bytes) =>
              /\ file.bytes = accepted.bytes
              /\ WithinBudget(file.bytes)

\* C5: compress_image makes at most 1 + 7 + 5 size estimates and always
\* ends by returning an image with format PNG or JPEG.
C5_CompressTotal ==
    /\ Len(estimates) <= 13
    /\ CompressEnded => (format_type \in {"PNG", "JPEG"} /\ result_image # NoImage)

C7_CommitPushOrder ==
    \A i \in 1..Len(git_log) :
        /\ git_log[i] = Invocation("status", "ok", "") =>
              /\ i = Len(git_log)
              /\ git_success = "True"
              /\ \A k \in 1..Len(git_log) : git_log[k].cmd \notin {"commit", "push"}
        /\ git_log[i].cmd = "commit" =>
              /\ i > 1
              /\ git_log[i - 1].cmd = "status"
              /\ git_log[i - 1].result = "ok"
              /\ git_log[i - 1].stdout # ""
        /\ git_log[i].cmd = "push" =>
              /\ i > 1
              /\ git_log[i - 1] = Invocation("commit", "ok", "")

C7_Witness ==
    /\ pc = "done"
    /\ StatusClean
    /\ run_result = "True"

\* C8: once save_image has written the file no later step changes or
\* removes it, and a failed add, status, commit or push makes
\* git_operations (and run) return False with the file still in place.
C8_FileSurvivesPublishFailure ==
    [][ /\ file # NoFile => file' = file
        /\ GitStepFailed(git_log') =>
              /\ git_success' = "False"
              /\ file' # NoFile
              /\ pc' = "done" => run_result' = "False" ]_vars

C8_Witness ==
    /\ pc = "done"
    /\ file # NoFile
    /\ git_log # <<>>
    /\ git_log[Len(git_log)].cmd = "push"
    /\ git_log[Len(git_log)].result = "CalledProcessError"
    /\ run_result = "False"

\* C9: no failure of an external operation leaves run or the constructor
\* as an uncaught exception.
C9_NoUncaughtException == uncaught = "none"

\* C10: the URL is on the clipboard only after a git push completed
\* successfully in the same run.
C10_UrlOnlyAfterPush == clipboard.url # NoUrl => PushCompleted

\* C10 as amended: the URL is on the clipboard only after git_operations
\* returned True for the written file, that is after a successful push or
\* after a status check that reported nothing to commit, and never after a
\* failed write or a failed git step.
C10_UrlOnlyAfterGitSuccess ==
    clipboard.url # NoUrl =>
        /\ file # NoFile
        /\ git_success = "True"
        /\ ~GitStepFailed(git_log)
        /\ PushCompleted \/ StatusClean
        /\ clipboard.url = github_url

C10_Witness ==
    /\ clipboard.url # NoUrl
    /\ PushCompleted
    /\ pc = "done"

====
